---- MODULE Spec2Model ----
(***************************************************************************)
(* A model of azure-credit-burner (src/src/main.rs): the scheduler in      *)
(* main, the per-task conversation loop debate_runner, the remote call     *)
(* chat_completion, the persistence step save_response and the file        *)
(* selection of GitHubClient::fetch_repo_files.                            *)
(***************************************************************************)
EXTENDS Integers, Sequences, FiniteSets, TLC

(***************************************************************************)
(* Bounds of the model.                                                    *)
(***************************************************************************)
\* most work items (task_configs entries) of a run
MaxItems == 2
\* largest value of the concurrency setting
MaxConcurrency == 2
\* most save_response failures the file system injects in a run
MaxSaveFaults == 2
\* most entries of the repository tree fetch_repo_files is given
MaxTreeSize == 3
\* largest value of RepoInfo::max_files
MaxMaxFiles == 3
MaxRunFiles == 1
MaxRepos == 2
MaxClock == 1
MaxEvents == 2
MaxQuestionTurn == 23
MaxQuestionIndex == 3
MaxFileQuestions == 2
MaxTemplateLen == 2
MaxPairs == 2

(***************************************************************************)
(* Program constants.                                                      *)
(***************************************************************************)
\* while turn <= 20
MaxTurns == 20
\* if turn > 3 { bail!(...) }
AbortTurn == 3
\* "3回連続でエラーになったら終了": the failures in a row that end a task
ConsecutiveLimit == 3
\* let question_index = (turn - 2) / 7
CategoryCount == 7
\* if content.len() > 10000 ... &content[0..10000]
MaxFileSize == 10000
\* .buffer_unordered(5)
BufferSize == 5

Tasks == 1..MaxItems

Min(a, b) == IF a < b THEN a ELSE b

VARIABLES
    numItems,       \* task_configs.len()
    concurrency,    \* the concurrency setting
    faults,         \* save_response failures the file system may still inject
    mainPc,         \* position of main
    spawned,        \* number of tokio::spawn calls made (tasks.len())
    nextTask,       \* next element of `for task in tasks`
    active_tasks,   \* Vec of join handles, as task numbers
    reported,       \* outcomes logged by main, in order
    pc,             \* position of each spawned debate_runner
    turn,           \* debate_runner's `turn`
    messages,       \* debate_runner's `messages`
    persisted,      \* the turns save_response wrote, per task, in order
    saveFailed,     \* the turns whose save_response returned Err, per task
    consecFails,    \* chat_completion Err results in a row, per task, counted up to
                    \* ConsecutiveLimit (history)
    lastCall,       \* the last chat_completion call of each task (history)
    fetchPc,        \* position of fetch_repo_files
    tree,           \* tree_data.tree: the blob paths of the repository
    max_files,      \* repo_info.max_files
    selected_files, \* the sorted, capped candidate paths
    nextFile,       \* next element of stream::iter(selected_files)
    inflight,       \* content requests in flight inside buffer_unordered
    fetched_files,  \* the Option<FileInfo> results, in completion order
    file_infos,     \* the Vec<FileInfo> fetch_repo_files returns
    itemsPc,        \* position of main between the set-up and the spawn loop
    github_repos,   \* main's `github_repos`
    debate_types,   \* main's `debate_types`
    task_configs,   \* main's `task_configs`
    now,            \* Utc::now(), in whole seconds
    events,         \* the remote calls and save_response calls made (history)
    q_turn,         \* the `turn` argument of get_next_question
    q_category,     \* the `category` argument of get_question
    q_index,        \* the `index` argument of get_question
    q_file,         \* what llm/categories/<category>.json holds
    q_result,       \* what the question function returned
    template,       \* the `template` argument of render_template
    variables,      \* the `variables` argument of render_template
    rendered        \* what render_template returned

schedVars == <<numItems, concurrency, mainPc, spawned, nextTask, active_tasks, reported>>
taskVars == <<pc, turn, messages, persisted, saveFailed, consecFails, lastCall>>
fetchVars == <<fetchPc, tree, max_files, selected_files, nextFile, inflight,
               fetched_files, file_infos>>
itemVars == <<itemsPc, github_repos, debate_types, task_configs, now, events>>
questionVars == <<q_turn, q_category, q_index, q_file, q_result>>
templateVars == <<template, variables, rendered>>
pureVars == <<itemVars, questionVars, templateVars>>
vars == <<numItems, concurrency, faults, mainPc, spawned, nextTask, active_tasks,
          reported, pc, turn, messages, persisted, saveFailed, consecFails, lastCall,
          fetchPc, tree, max_files, selected_files, nextFile, inflight,
          fetched_files, file_infos, itemsPc, github_repos, debate_types,
          task_configs, now, events, q_turn, q_category, q_index, q_file, q_result,
          template, variables, rendered>>

(***************************************************************************)
(* Question selection: DeepQuestions and get_next_question.                *)
(***************************************************************************)
\* the match arms of DeepQuestions::get_question with the length of each list
QuestionCount ==
    [architecture |-> 3, performance |-> 3, security |-> 3, testing |-> 3,
     domain |-> 3, distributed |-> 3, maintainability |-> 3]

categories ==
    <<"architecture", "performance", "security", "testing", "domain",
      "distributed", "maintainability">>

\* get_category, had the rotation started one category later
get_category_OneLater(t) == categories[((t + 1) % Len(categories)) + 1]

get_category(t) == categories[(t % Len(categories)) + 1]

get_question(category, index) ==
    IF category \in DOMAIN QuestionCount
    THEN <<"question", category, index % QuestionCount[category]>>
    ELSE <<"fallback", "", 0>>

\* get_next_question, had the question index been taken modulo 7
get_next_question_ModIndex(t) ==
    IF t = 1
    THEN <<"opening", "", 0>>
    ELSE get_question(get_category(t - 2), (t - 2) % CategoryCount)

get_next_question(t) ==
    IF t = 1
    THEN <<"opening", "", 0>>
    ELSE get_question(get_category(t - 2), (t - 2) \div CategoryCount)

ChatMessage(role, content) == [role |-> role, content |-> content]

\* InitialMessages, had the history started without the system prompt
InitialMessages_NoSystem ==
    <<ChatMessage("user", <<"initial_message", "", 0>>)>>

\* the two messages debate_runner starts the history with
InitialMessages ==
    <<ChatMessage("system", <<"system_prompt", "", 0>>),
      ChatMessage("user", <<"initial_message", "", 0>>)>>

(***************************************************************************)
(* The remote completion call.                                             *)
(***************************************************************************)
\* what the completion service can answer to one HTTP request
\* (a request that fails in transit takes the same Err path as "server_error")
Responses == {"success", "empty_choices", "rate_limit", "server_error"}

\* the answers chat_completion turns into Err: both are retryable errors
ErrResponses == {"rate_limit", "server_error"}

\* AzureOpenAIClient::chat_completion: one request is sent; a 2xx body is
\* indexed at choices[0] (a panic when there is no choice), anything else is
\* returned as Err at once.  attempts and waits record the requests sent and
\* the pauses made inside the call.
chat_completion(response) ==
    [result   |-> CASE response = "success" -> "Ok"
                    [] response = "empty_choices" -> "Panic"
                    [] OTHER -> "Err",
     response |-> response,
     attempts |-> 1,
     waits    |-> <<>>]

NoCall == [result |-> "None", response |-> "none", attempts |-> 0, waits |-> <<>>]

(***************************************************************************)
(* Initial states.                                                         *)
(***************************************************************************)
InitTasks ==
    /\ pc = [t \in Tasks |-> "unspawned"]
    /\ turn = [t \in Tasks |-> 0]
    /\ messages = [t \in Tasks |-> <<>>]
    /\ persisted = [t \in Tasks |-> <<>>]
    /\ saveFailed = [t \in Tasks |-> {}]
    /\ consecFails = [t \in Tasks |-> 0]
    /\ lastCall = [t \in Tasks |-> NoCall]

InitMain ==
    /\ mainPc = "spawn"
    /\ spawned = 0
    /\ nextTask = 1
    /\ active_tasks = <<>>
    /\ reported = <<>>

\* no fetch_repo_files call is followed step by step
FetchIdle ==
    /\ fetchPc = "idle"
    /\ tree = {}
    /\ max_files = 0
    /\ selected_files = <<>>
    /\ nextFile = 1
    /\ inflight = {}
    /\ fetched_files = <<>>
    /\ file_infos = <<>>

\* the fan-out, the question functions and render_template are not followed
ItemsIdle ==
    /\ itemsPc = "idle"
    /\ github_repos = <<>>
    /\ debate_types = <<>>
    /\ task_configs = <<>>
    /\ now = 0
    /\ events = <<>>

NoFile == [state |-> "missing", questions |-> 0]

NoResult == [op |-> "none", ok |-> TRUE, value |-> <<"none", "", 0>>]

QuestionIdle ==
    /\ q_turn = 0
    /\ q_category = ""
    /\ q_index = 0
    /\ q_file = NoFile
    /\ q_result = NoResult

NotRendered == [done |-> FALSE, text |-> <<>>]

TemplateIdle ==
    /\ template = <<>>
    /\ variables = <<>>
    /\ rendered = NotRendered

PureIdle == ItemsIdle /\ QuestionIdle /\ TemplateIdle

\* a run of main with up to MaxItems work items; every save_response succeeds
Init ==
    /\ numItems \in 0..MaxItems
    /\ concurrency \in 0..MaxConcurrency
    /\ faults = 0
    /\ InitMain
    /\ InitTasks
    /\ FetchIdle
    /\ PureIdle

\* a run of main with one work item, where save_response can fail
InitTask ==
    /\ numItems = 1
    /\ concurrency \in 1..MaxConcurrency
    /\ faults = MaxSaveFaults
    /\ InitMain
    /\ InitTasks
    /\ FetchIdle
    /\ PureIdle

(***************************************************************************)
(* debate_runner.                                                          *)
(***************************************************************************)
Terminal == {"ok", "err_fetch", "err_api", "panic"}

\* how fetch_repo_files ended for task t.  The fetch of the first work item
\* is followed step by step when fetchPc is not "idle"; any other fetch may
\* end in any way.
FetchReturned(t, outcome) == (t = 1 /\ fetchPc # "idle") => fetchPc = outcome

\* fetch_repo_files returned Err (tree request failed, or no file content
\* could be fetched): debate_runner returns the error.
FetchErr(t) ==
    /\ pc[t] = "start"
    /\ FetchReturned(t, "done_err")
    /\ pc' = [pc EXCEPT ![t] = "err_fetch"]
    /\ UNCHANGED <<turn, messages, persisted, saveFailed, consecFails, lastCall>>
    /\ UNCHANGED <<schedVars, faults, fetchVars>>
    /\ UNCHANGED pureVars

\* fetch_repo_files panicked (the byte slice of a truncated content)
FetchPanic(t) ==
    /\ pc[t] = "start"
    /\ FetchReturned(t, "panic")
    /\ pc' = [pc EXCEPT ![t] = "panic"]
    /\ UNCHANGED <<turn, messages, persisted, saveFailed, consecFails, lastCall>>
    /\ UNCHANGED <<schedVars, faults, fetchVars>>
    /\ UNCHANGED pureVars

\* fetch_repo_files returned files: they are moved into the system prompt,
\* the history is initialised, turn = 1
FetchOk(t) ==
    /\ pc[t] = "start"
    /\ FetchReturned(t, "done_ok")
    /\ messages' = [messages EXCEPT ![t] = InitialMessages]
    /\ turn' = [turn EXCEPT ![t] = 1]
    /\ pc' = [pc EXCEPT ![t] = "call"]
    /\ IF t = 1 /\ fetchPc # "idle"
       THEN /\ tree' = {}
            /\ max_files' = 0
            /\ selected_files' = <<>>
            /\ nextFile' = 1
            /\ inflight' = {}
            /\ fetched_files' = <<>>
            /\ file_infos' = <<>>
            /\ UNCHANGED fetchPc
       ELSE UNCHANGED fetchVars
    /\ UNCHANGED <<persisted, saveFailed, consecFails, lastCall>>
    /\ UNCHANGED <<schedVars, faults>>
    /\ UNCHANGED pureVars

\* LoopHead, had the loop allowed one more turn
LoopHead_OneMore(tn) == IF tn <= MaxTurns + 1 THEN "call" ELSE "ok"

\* the position after one more loop iteration: `while turn <= 20`
LoopHead(tn) == IF tn <= MaxTurns THEN "call" ELSE "ok"

\* ChatOk, had the next iteration kept only the last exchange of the history
ChatOk_DropsHistory(t) ==
    /\ pc[t] = "call"
    /\ LET call == chat_completion("success")
           reply == ChatMessage("assistant", <<"reply", "", 0>>)
           withReply == Append(messages[t], reply)
       IN  /\ lastCall' = [lastCall EXCEPT ![t] = call]
           /\ \E saved \in BOOLEAN :
                /\ ~saved => faults > 0
                /\ faults' = IF saved THEN faults ELSE faults - 1
                /\ persisted' =
                     IF saved
                     THEN [persisted EXCEPT ![t] =
                             Append(@, [turn |-> turn[t], messages |-> withReply])]
                     ELSE persisted
                /\ saveFailed' =
                     IF saved THEN saveFailed
                     ELSE [saveFailed EXCEPT ![t] = @ \cup {turn[t]}]
           /\ messages' = [messages EXCEPT ![t] =
                             <<reply, ChatMessage("user", get_next_question(turn[t]))>>]
    /\ turn' = [turn EXCEPT ![t] = @ + 1]
    /\ consecFails' = [consecFails EXCEPT ![t] = 0]
    /\ pc' = [pc EXCEPT ![t] = LoopHead(turn[t] + 1)]
    /\ UNCHANGED <<schedVars, fetchVars>>
    /\ UNCHANGED pureVars

\* ChatOk, had the Err arm of save_response ended the task with `?`
ChatOk_SaveFatal(t) ==
    /\ pc[t] = "call"
    /\ LET call == chat_completion("success")
           withReply == Append(messages[t], ChatMessage("assistant", <<"reply", "", 0>>))
       IN  /\ lastCall' = [lastCall EXCEPT ![t] = call]
           /\ \E saved \in BOOLEAN :
                /\ ~saved => faults > 0
                /\ faults' = IF saved THEN faults ELSE faults - 1
                /\ persisted' =
                     IF saved
                     THEN [persisted EXCEPT ![t] =
                             Append(@, [turn |-> turn[t], messages |-> withReply])]
                     ELSE persisted
                /\ saveFailed' =
                     IF saved THEN saveFailed
                     ELSE [saveFailed EXCEPT ![t] = @ \cup {turn[t]}]
                /\ messages' = [messages EXCEPT ![t] =
                                  IF saved
                                  THEN Append(withReply,
                                              ChatMessage("user", get_next_question(turn[t])))
                                  ELSE withReply]
                /\ turn' = [turn EXCEPT ![t] = IF saved THEN @ + 1 ELSE @]
                /\ pc' = [pc EXCEPT ![t] =
                            IF saved THEN LoopHead(turn[t] + 1) ELSE "err_api"]
    /\ consecFails' = [consecFails EXCEPT ![t] = 0]
    /\ UNCHANGED <<schedVars, fetchVars>>
    /\ UNCHANGED pureVars

\* ChatOk, had the reply been saved but not kept in the history
ChatOk_NoReply(t) ==
    /\ pc[t] = "call"
    /\ LET call == chat_completion("success")
           withReply == Append(messages[t], ChatMessage("assistant", <<"reply", "", 0>>))
       IN  /\ lastCall' = [lastCall EXCEPT ![t] = call]
           /\ \E saved \in BOOLEAN :
                /\ ~saved => faults > 0
                /\ faults' = IF saved THEN faults ELSE faults - 1
                /\ persisted' =
                     IF saved
                     THEN [persisted EXCEPT ![t] =
                             Append(@, [turn |-> turn[t], messages |-> withReply])]
                     ELSE persisted
                /\ saveFailed' =
                     IF saved THEN saveFailed
                     ELSE [saveFailed EXCEPT ![t] = @ \cup {turn[t]}]
           /\ messages' = [messages EXCEPT ![t] =
                             Append(messages[t], ChatMessage("user", get_next_question(turn[t])))]
    /\ turn' = [turn EXCEPT ![t] = @ + 1]
    /\ consecFails' = [consecFails EXCEPT ![t] = 0]
    /\ pc' = [pc EXCEPT ![t] = LoopHead(turn[t] + 1)]
    /\ UNCHANGED <<schedVars, fetchVars>>
    /\ UNCHANGED pureVars

\* ChatOk, had save_response been called after `turn += 1`
ChatOk_SavesNextTurn(t) ==
    /\ pc[t] = "call"
    /\ LET call == chat_completion("success")
           withReply == Append(messages[t], ChatMessage("assistant", <<"reply", "", 0>>))
       IN  /\ lastCall' = [lastCall EXCEPT ![t] = call]
           /\ \E saved \in BOOLEAN :
                /\ ~saved => faults > 0
                /\ faults' = IF saved THEN faults ELSE faults - 1
                /\ persisted' =
                     IF saved
                     THEN [persisted EXCEPT ![t] =
                             Append(@, [turn |-> turn[t] + 1, messages |-> withReply])]
                     ELSE persisted
                /\ saveFailed' =
                     IF saved THEN saveFailed
                     ELSE [saveFailed EXCEPT ![t] = @ \cup {turn[t]}]
           /\ messages' = [messages EXCEPT ![t] =
                             Append(withReply, ChatMessage("user", get_next_question(turn[t])))]
    /\ turn' = [turn EXCEPT ![t] = @ + 1]
    /\ consecFails' = [consecFails EXCEPT ![t] = 0]
    /\ pc' = [pc EXCEPT ![t] = LoopHead(turn[t] + 1)]
    /\ UNCHANGED <<schedVars, fetchVars>>
    /\ UNCHANGED pureVars

\* Ok((response, tokens_used)): push the reply, save, push the next question,
\* turn += 1
ChatOk(t) ==
    /\ pc[t] = "call"
    /\ LET call == chat_completion("success")
           withReply == Append(messages[t], ChatMessage("assistant", <<"reply", "", 0>>))
       IN  /\ lastCall' = [lastCall EXCEPT ![t] = call]
           /\ \E saved \in BOOLEAN :
                /\ ~saved => faults > 0
                /\ faults' = IF saved THEN faults ELSE faults - 1
                /\ persisted' =
                     IF saved
                     THEN [persisted EXCEPT ![t] =
                             Append(@, [turn |-> turn[t], messages |-> withReply])]
                     ELSE persisted
                /\ saveFailed' =
                     IF saved THEN saveFailed
                     ELSE [saveFailed EXCEPT ![t] = @ \cup {turn[t]}]
           /\ messages' = [messages EXCEPT ![t] =
                             Append(withReply, ChatMessage("user", get_next_question(turn[t])))]
    /\ turn' = [turn EXCEPT ![t] = @ + 1]
    /\ consecFails' = [consecFails EXCEPT ![t] = 0]
    /\ pc' = [pc EXCEPT ![t] = LoopHead(turn[t] + 1)]
    /\ UNCHANGED <<schedVars, fetchVars>>
    /\ UNCHANGED pureVars

\* the 2xx body had no choice: choices[0] panics inside the spawned task
ChatPanic(t) ==
    /\ pc[t] = "call"
    /\ lastCall' = [lastCall EXCEPT ![t] = chat_completion("empty_choices")]
    /\ pc' = [pc EXCEPT ![t] = "panic"]
    /\ UNCHANGED <<turn, messages, persisted, saveFailed, consecFails>>
    /\ UNCHANGED <<schedVars, faults, fetchVars>>
    /\ UNCHANGED pureVars

\* ChatErr, had the Err branch moved on to the next turn
ChatErr_SkipsTurn(t) ==
    /\ pc[t] = "call"
    /\ \E response \in ErrResponses :
         lastCall' = [lastCall EXCEPT ![t] = chat_completion(response)]
    /\ consecFails' = [consecFails EXCEPT ![t] = Min(@ + 1, ConsecutiveLimit)]
    /\ turn' = [turn EXCEPT ![t] = @ + 1]
    /\ pc' = [pc EXCEPT ![t] = "err_sleep"]
    /\ UNCHANGED <<messages, persisted, saveFailed>>
    /\ UNCHANGED <<schedVars, faults, fetchVars>>
    /\ UNCHANGED pureVars

\* ChatErr, had the Err branch recorded the error in the history
ChatErr_PushesError(t) ==
    /\ pc[t] = "call"
    /\ \E response \in ErrResponses :
         lastCall' = [lastCall EXCEPT ![t] = chat_completion(response)]
    /\ consecFails' = [consecFails EXCEPT ![t] = Min(@ + 1, ConsecutiveLimit)]
    /\ messages' = [messages EXCEPT ![t] =
                      Append(@, ChatMessage("assistant", <<"error", "", 0>>))]
    /\ pc' = [pc EXCEPT ![t] = "err_sleep"]
    /\ UNCHANGED <<turn, persisted, saveFailed>>
    /\ UNCHANGED <<schedVars, faults, fetchVars>>
    /\ UNCHANGED pureVars

\* Err(e): the error is logged and the task sleeps 5 seconds
ChatErr(t) ==
    /\ pc[t] = "call"
    /\ \E response \in ErrResponses :
         lastCall' = [lastCall EXCEPT ![t] = chat_completion(response)]
    /\ consecFails' = [consecFails EXCEPT ![t] = Min(@ + 1, ConsecutiveLimit)]
    /\ pc' = [pc EXCEPT ![t] = "err_sleep"]
    /\ UNCHANGED <<turn, messages, persisted, saveFailed>>
    /\ UNCHANGED <<schedVars, faults, fetchVars>>
    /\ UNCHANGED pureVars

\* after the sleep: `if turn > 3 { bail!(...) }`, else the loop goes on
AfterErrSleep(t) ==
    /\ pc[t] = "err_sleep"
    /\ pc' = [pc EXCEPT ![t] = IF turn[t] > AbortTurn THEN "err_api" ELSE "call"]
    /\ UNCHANGED <<turn, messages, persisted, saveFailed, consecFails, lastCall>>
    /\ UNCHANGED <<schedVars, faults, fetchVars>>
    /\ UNCHANGED pureVars

TaskStep(t) ==
    \/ FetchErr(t)
    \/ FetchPanic(t)
    \/ FetchOk(t)
    \/ ChatOk(t)
    \/ ChatPanic(t)
    \/ ChatErr(t)
    \/ AfterErrSleep(t)

(***************************************************************************)
(* main: spawning, the admission loop and the drain loop.                  *)
(***************************************************************************)
\* SpawnTask, had main stopped starting tasks once a task has failed
SpawnTask_StopsOnFailure ==
    /\ mainPc = "spawn"
    /\ spawned < numItems
    /\ \A t \in Tasks : pc[t] \notin {"err_fetch", "err_api", "panic"}
    /\ spawned' = spawned + 1
    /\ pc' = [pc EXCEPT ![spawned + 1] = "start"]
    /\ UNCHANGED <<numItems, concurrency, mainPc, nextTask, active_tasks, reported>>
    /\ UNCHANGED <<turn, messages, persisted, saveFailed, consecFails, lastCall, faults>>
    /\ UNCHANGED fetchVars
    /\ UNCHANGED pureVars

\* SpawnTask, had the spawn loop walked task_configs from the back
SpawnTask_Reverse ==
    /\ mainPc = "spawn"
    /\ spawned < numItems
    /\ spawned' = spawned + 1
    /\ pc' = [pc EXCEPT ![numItems - spawned] = "start"]
    /\ UNCHANGED <<numItems, concurrency, mainPc, nextTask, active_tasks, reported>>
    /\ UNCHANGED <<turn, messages, persisted, saveFailed, consecFails, lastCall, faults>>
    /\ UNCHANGED fetchVars
    /\ UNCHANGED pureVars

\* tasks.push(tokio::spawn(...)): the task starts running at once
SpawnTask ==
    /\ mainPc = "spawn"
    /\ spawned < numItems
    /\ spawned' = spawned + 1
    /\ pc' = [pc EXCEPT ![spawned + 1] = "start"]
    /\ UNCHANGED <<numItems, concurrency, mainPc, nextTask, active_tasks, reported>>
    /\ UNCHANGED <<turn, messages, persisted, saveFailed, consecFails, lastCall, faults>>
    /\ UNCHANGED fetchVars
    /\ UNCHANGED pureVars

EndSpawn ==
    /\ mainPc = "spawn"
    /\ spawned = numItems
    /\ mainPc' = "admit"
    /\ UNCHANGED <<numItems, concurrency, spawned, nextTask, active_tasks, reported>>
    /\ UNCHANGED <<taskVars, faults, fetchVars>>
    /\ UNCHANGED pureVars

\* what awaiting the join handle of a finished task yields
JoinResult(p) ==
    CASE p = "ok" -> "Ok(Ok)"
      [] p \in {"err_fetch", "err_api"} -> "Ok(Err)"
      [] p = "panic" -> "Err(JoinError)"

\* futures::future::select_all: the first ready future in index order
FirstReady(handles) ==
    CHOOSE i \in 1..Len(handles) :
        /\ pc[handles[i]] \in Terminal
        /\ \A j \in 1..(i - 1) : pc[handles[j]] \notin Terminal

\* SwapRemove, had `remaining` lost its last handle instead of the completed one
SwapRemove_DropsLast(handles, i) == SubSeq(handles, 1, Len(handles) - 1)

\* the `remaining` of select_all: Vec::swap_remove(index)
SwapRemove(handles, i) ==
    [j \in 1..(Len(handles) - 1) |-> IF j = i THEN handles[Len(handles)] ELSE handles[j]]

AnyReady(handles) == \E i \in 1..Len(handles) : pc[handles[i]] \in Terminal

\* Admit, had the length been tested before the handle is pushed
Admit_TestBeforePush ==
    /\ mainPc = "admit"
    /\ nextTask <= numItems
    /\ IF Len(active_tasks) >= concurrency
       THEN /\ mainPc' = "select_admit"
            /\ UNCHANGED <<active_tasks, nextTask>>
       ELSE /\ active_tasks' = Append(active_tasks, nextTask)
            /\ nextTask' = nextTask + 1
            /\ mainPc' = "admit"
    /\ UNCHANGED <<numItems, concurrency, spawned, reported>>
    /\ UNCHANGED <<taskVars, faults, fetchVars>>
    /\ UNCHANGED pureVars

\* Admit, had the test been `active_tasks.len() > concurrency`
Admit_OneMore ==
    /\ mainPc = "admit"
    /\ nextTask <= numItems
    /\ active_tasks' = Append(active_tasks, nextTask)
    /\ nextTask' = nextTask + 1
    /\ mainPc' = IF Len(active_tasks) + 1 > concurrency THEN "select_admit" ELSE "admit"
    /\ UNCHANGED <<numItems, concurrency, spawned, reported>>
    /\ UNCHANGED <<taskVars, faults, fetchVars>>
    /\ UNCHANGED pureVars

\* `for task in tasks { active_tasks.push(task); if active_tasks.len() >= concurrency`
Admit ==
    /\ mainPc = "admit"
    /\ nextTask <= numItems
    /\ active_tasks' = Append(active_tasks, nextTask)
    /\ nextTask' = nextTask + 1
    /\ mainPc' = IF Len(active_tasks) + 1 >= concurrency THEN "select_admit" ELSE "admit"
    /\ UNCHANGED <<numItems, concurrency, spawned, reported>>
    /\ UNCHANGED <<taskVars, faults, fetchVars>>
    /\ UNCHANGED pureVars

\* SelectAdmit, had main returned a failed result with `?`: the runtime
\* shuts down and every task still running is dropped
SelectAdmit_Propagates ==
    /\ mainPc = "select_admit"
    /\ AnyReady(active_tasks)
    /\ LET i == FirstReady(active_tasks)
           failed == JoinResult(pc[active_tasks[i]]) # "Ok(Ok)"
       IN  /\ reported' = Append(reported, [task |-> active_tasks[i],
                                           result |-> JoinResult(pc[active_tasks[i]])])
           /\ active_tasks' = SwapRemove(active_tasks, i)
           /\ mainPc' = IF failed THEN "done" ELSE "admit"
           /\ pc' = IF failed
                    THEN [t \in Tasks |-> IF pc[t] \in {"start", "call", "err_sleep"}
                                          THEN "panic" ELSE pc[t]]
                    ELSE pc
    /\ UNCHANGED <<numItems, concurrency, spawned, nextTask>>
    /\ UNCHANGED <<turn, messages, persisted, saveFailed, consecFails, lastCall>>
    /\ UNCHANGED <<faults, fetchVars>>
    /\ UNCHANGED pureVars

\* select_all(active_tasks).await in the admission loop, and the log of its result
SelectAdmit ==
    /\ mainPc = "select_admit"
    /\ AnyReady(active_tasks)
    /\ LET i == FirstReady(active_tasks)
       IN  /\ reported' = Append(reported, [task |-> active_tasks[i],
                                           result |-> JoinResult(pc[active_tasks[i]])])
           /\ active_tasks' = SwapRemove(active_tasks, i)
    /\ mainPc' = "admit"
    /\ UNCHANGED <<numItems, concurrency, spawned, nextTask>>
    /\ UNCHANGED <<taskVars, faults, fetchVars>>
    /\ UNCHANGED pureVars

EndAdmit ==
    /\ mainPc = "admit"
    /\ nextTask > numItems
    /\ mainPc' = "drain"
    /\ UNCHANGED <<numItems, concurrency, spawned, nextTask, active_tasks, reported>>
    /\ UNCHANGED <<taskVars, faults, fetchVars>>
    /\ UNCHANGED pureVars

\* `while !active_tasks.is_empty()`: select_all(active_tasks).await
SelectDrain ==
    /\ mainPc = "drain"
    /\ active_tasks # <<>>
    /\ AnyReady(active_tasks)
    /\ LET i == FirstReady(active_tasks)
       IN  /\ reported' = Append(reported, [task |-> active_tasks[i],
                                           result |-> JoinResult(pc[active_tasks[i]])])
           /\ active_tasks' = SwapRemove(active_tasks, i)
    /\ UNCHANGED <<numItems, concurrency, mainPc, spawned, nextTask>>
    /\ UNCHANGED <<taskVars, faults, fetchVars>>
    /\ UNCHANGED pureVars

\* the completion log and `Ok(())`
Finish ==
    /\ mainPc = "drain"
    /\ active_tasks = <<>>
    /\ mainPc' = "done"
    /\ UNCHANGED <<numItems, concurrency, spawned, nextTask, active_tasks, reported>>
    /\ UNCHANGED <<taskVars, faults, fetchVars>>
    /\ UNCHANGED pureVars

MainStep ==
    \/ SpawnTask
    \/ EndSpawn
    \/ Admit
    \/ SelectAdmit
    \/ EndAdmit
    \/ SelectDrain
    \/ Finish

(***************************************************************************)
(* GitHubClient::fetch_repo_files.  A path is the sequence of its bytes;   *)
(* a file content is a sequence of runs [width, count]: count characters   *)
(* of width bytes each (width 0: count bytes that are not valid UTF-8).    *)
(***************************************************************************)
Str_README_md == <<82, 69, 65, 68, 77, 69, 46, 109, 100>>
Str_main_dot == <<109, 97, 105, 110, 46>>
Str_core_dot == <<99, 111, 114, 101, 46>>
Str_src_dir == <<47, 115, 114, 99, 47>>
Str_mod_rs == <<109, 111, 100, 46, 114, 115>>
Str_lib_rs == <<108, 105, 98, 46, 114, 115>>
Str_index_dot == <<105, 110, 100, 101, 120, 46>>

\* ".py", ".js", ".ts", ".java", ".c", ".cpp", ".h", ".go", ".rs", ".rb",
\* ".php", ".md", ".cs", ".jsx", ".tsx"
code_extensions ==
    {<<46, 112, 121>>,
     <<46, 106, 115>>,
     <<46, 116, 115>>,
     <<46, 106, 97, 118, 97>>,
     <<46, 99>>,
     <<46, 99, 112, 112>>,
     <<46, 104>>,
     <<46, 103, 111>>,
     <<46, 114, 115>>,
     <<46, 114, 98>>,
     <<46, 112, 104, 112>>,
     <<46, 109, 100>>,
     <<46, 99, 115>>,
     <<46, 106, 115, 120>>,
     <<46, 116, 115, 120>>}

\* the tree entries a repository is made of in the model:
\* README.md, a.py, main.rs, x/src/lib.rs, src/lib.rs (blobs), logo.png (a
\* blob that is no code file) and x/src (a directory)
TreeUniverse ==
    {[path |-> <<82, 69, 65, 68, 77, 69, 46, 109, 100>>, item_type |-> "blob"],
     [path |-> <<97, 46, 112, 121>>, item_type |-> "blob"],
     [path |-> <<109, 97, 105, 110, 46, 114, 115>>, item_type |-> "blob"],
     [path |-> <<120, 47, 115, 114, 99, 47, 108, 105, 98, 46, 114, 115>>, item_type |-> "blob"],
     [path |-> <<115, 114, 99, 47, 108, 105, 98, 46, 114, 115>>, item_type |-> "blob"],
     [path |-> <<108, 111, 103, 111, 46, 112, 110, 103>>, item_type |-> "blob"],
     [path |-> <<120, 47, 115, 114, 99>>, item_type |-> "tree"]}

\* str::ends_with
EndsWith(s, suffix) ==
    /\ Len(suffix) <= Len(s)
    /\ SubSeq(s, Len(s) - Len(suffix) + 1, Len(s)) = suffix

\* str::contains
Contains(s, sub) ==
    \E i \in 1..(Len(s) - Len(sub) + 1) : SubSeq(s, i, i + Len(sub) - 1) = sub

\* `&&` binds tighter than `||`
is_priority_file(path) ==
    \/ EndsWith(path, Str_README_md)
    \/ Contains(path, Str_main_dot)
    \/ Contains(path, Str_core_dot)
    \/ /\ Contains(path, Str_src_dir)
       /\ \/ Contains(path, Str_mod_rs)
          \/ Contains(path, Str_lib_rs)
          \/ Contains(path, Str_index_dot)

\* str::cmp is Less: byte-wise lexicographic order
PathLess(a, b) ==
    \E k \in 0..Min(Len(a), Len(b)) :
        /\ SubSeq(a, 1, k) = SubSeq(b, 1, k)
        /\ \/ k = Len(a) /\ k < Len(b)
           \/ k < Len(a) /\ k < Len(b) /\ a[k + 1] < b[k + 1]

\* the comparator of code_files.sort_by is Ordering::Less
SortLess(a, b) ==
    LET a_priority == is_priority_file(a.path)
        b_priority == is_priority_file(b.path)
    IN  IF a_priority /\ ~b_priority THEN TRUE
        ELSE IF ~a_priority /\ b_priority THEN FALSE
        ELSE PathLess(a.path, b.path)

\* the filter on tree_data.tree
IsCodeFile(item) ==
    /\ item.item_type = "blob"
    /\ \E ext \in code_extensions : EndsWith(item.path, ext)

RECURSIVE SortFiles(_)
\* code_files after sort_by (the paths of a tree are distinct)
SortFiles(items) ==
    IF items = {} THEN <<>>
    ELSE LET first == CHOOSE x \in items : \A y \in items \ {x} : SortLess(x, y)
         IN  <<first>> \o SortFiles(items \ {first})

\* SelectFiles, had the cap on the number of files been left out
SelectFiles_NoCap(items, cap) ==
    LET code_files == SortFiles({item \in items : IsCodeFile(item)})
    IN  [i \in 1..Len(code_files) |-> code_files[i].path]

\* code_files.into_iter().take(max_files), as paths
SelectFiles(items, cap) ==
    LET code_files == SortFiles({item \in items : IsCodeFile(item)})
        n == Min(cap, Len(code_files))
    IN  [i \in 1..n |-> code_files[i].path]

Run(width, count) == [width |-> width, count |-> count]

\* the decoded bytes a content request can return: 5 ASCII characters;
\* 10001 ASCII characters; 4000 characters of 3 bytes; 6000 characters of
\* 2 bytes; 10001 characters of 2 bytes; 9999 ASCII characters and one of
\* 3 bytes; 2 bytes that are not UTF-8
Contents ==
    {<<Run(1, 5)>>, <<Run(1, 10001)>>, <<Run(3, 4000)>>, <<Run(2, 6000)>>,
     <<Run(2, 10001)>>, <<Run(1, 9999), Run(3, 1)>>, <<Run(0, 2)>>}

\* String::from_utf8_lossy: every invalid byte becomes U+FFFD (3 bytes)
from_utf8_lossy(bytes) ==
    [i \in 1..Len(bytes) |->
        IF bytes[i].width = 0 THEN Run(3, bytes[i].count) ELSE bytes[i]]

RECURSIVE ByteLen(_)
\* String::len: the length in bytes
ByteLen(runs) ==
    IF runs = <<>> THEN 0
    ELSE Head(runs).width * Head(runs).count + ByteLen(Tail(runs))

RECURSIVE IsCharBoundary(_, _)
\* str::is_char_boundary(k), for k below the byte length
IsCharBoundary(runs, k) ==
    IF k = 0 \/ runs = <<>> THEN TRUE
    ELSE LET h == Head(runs)
         IN  IF h.width * h.count <= k
             THEN IsCharBoundary(Tail(runs), k - h.width * h.count)
             ELSE k % h.width = 0

RECURSIVE BytePrefix(_, _)
\* &content[0..k], k on a character boundary
BytePrefix(runs, k) ==
    IF k = 0 \/ runs = <<>> THEN <<>>
    ELSE LET h == Head(runs)
         IN  IF h.width * h.count <= k
             THEN <<h>> \o BytePrefix(Tail(runs), k - h.width * h.count)
             ELSE <<Run(h.width, k \div h.width)>>

\* a content and whether the truncation marker follows it
Text(runs, marked) == [runs |-> runs, marked |-> marked]

Panicked == [runs |-> <<>>, marked |-> FALSE, panic |-> TRUE]

\* `if content.len() > 10000 { format!("{}...", &content[0..10000]) } else { content }`:
\* the slice panics when byte 10000 is inside a character
Truncate(content) ==
    IF ByteLen(content) > MaxFileSize
    THEN IF IsCharBoundary(content, MaxFileSize)
         THEN Text(BytePrefix(content, MaxFileSize), TRUE)
         ELSE Panicked
    ELSE Text(content, FALSE)

\* one Option<FileInfo>; decoded keeps the bytes the content was made from
FetchedFile(some, path, decoded, content) ==
    [some |-> some, path |-> path, decoded |-> decoded, content |-> content]

\* a fetch_repo_files call on any tree of at most MaxTreeSize entries
InitFetch ==
    /\ fetchPc = "tree"
    /\ tree \in {t \in SUBSET TreeUniverse : Cardinality(t) <= MaxTreeSize}
    /\ max_files \in 0..MaxMaxFiles
    /\ selected_files = <<>>
    /\ nextFile = 1
    /\ inflight = {}
    /\ fetched_files = <<>>
    /\ file_infos = <<>>
    /\ numItems = 0
    /\ concurrency = 0
    /\ faults = 0
    /\ InitMain
    /\ InitTasks
    /\ PureIdle

\* the tree request fails for both branches, or its body does not parse
TreeErr ==
    /\ fetchPc = "tree"
    /\ fetchPc' = "done_err"
    /\ UNCHANGED <<tree, max_files, selected_files, nextFile, inflight, fetched_files,
                   file_infos>>
    /\ UNCHANGED <<schedVars, taskVars, faults>>
    /\ UNCHANGED pureVars

\* the tree is listed: filter, sort, cap
TreeOk ==
    /\ fetchPc = "tree"
    /\ selected_files' = SelectFiles(tree, max_files)
    /\ fetchPc' = "fetching"
    /\ UNCHANGED <<tree, max_files, nextFile, inflight, fetched_files, file_infos>>
    /\ UNCHANGED <<schedVars, taskVars, faults>>
    /\ UNCHANGED pureVars

\* buffer_unordered takes the next file while fewer than 5 are in flight
StartContent ==
    /\ fetchPc = "fetching"
    /\ nextFile <= Len(selected_files)
    /\ Cardinality(inflight) < BufferSize
    /\ inflight' = inflight \cup {nextFile}
    /\ nextFile' = nextFile + 1
    /\ UNCHANGED <<fetchPc, tree, max_files, selected_files, fetched_files, file_infos>>
    /\ UNCHANGED <<schedVars, taskVars, faults>>
    /\ UNCHANGED pureVars

\* a content request ends with None (request, status, body, encoding or
\* base64 failure)
ContentNone(i) ==
    /\ fetchPc = "fetching"
    /\ i \in inflight
    /\ inflight' = inflight \ {i}
    /\ fetched_files' = Append(fetched_files,
                               FetchedFile(FALSE, selected_files[i], <<>>, Text(<<>>, FALSE)))
    /\ UNCHANGED <<fetchPc, tree, max_files, selected_files, nextFile, file_infos>>
    /\ UNCHANGED <<schedVars, taskVars, faults>>
    /\ UNCHANGED pureVars

\* a content request ends with decoded bytes: Some(FileInfo), or the panic
\* of the slice
ContentSome(i) ==
    /\ fetchPc = "fetching"
    /\ i \in inflight
    /\ \E decoded \in Contents :
         LET content == Truncate(from_utf8_lossy(decoded))
         IN  IF content = Panicked
             THEN /\ fetchPc' = "panic"
                  /\ UNCHANGED <<inflight, fetched_files>>
             ELSE /\ fetchPc' = fetchPc
                  /\ inflight' = inflight \ {i}
                  /\ fetched_files' = Append(fetched_files,
                                             FetchedFile(TRUE, selected_files[i], decoded, content))
    /\ UNCHANGED <<tree, max_files, selected_files, nextFile, file_infos>>
    /\ UNCHANGED <<schedVars, taskVars, faults>>
    /\ UNCHANGED pureVars

\* the Some results, in the order collect() received them
SelectSome(results) == SelectSeq(results, LAMBDA r : r.some)

\* Collect, had fetch_repo_files returned Ok whatever it collected
Collect_NoEmptyCheck ==
    /\ fetchPc = "fetching"
    /\ nextFile > Len(selected_files)
    /\ inflight = {}
    /\ file_infos' = SelectSome(fetched_files)
    /\ fetchPc' = "done_ok"
    /\ UNCHANGED <<tree, max_files, selected_files, nextFile, inflight, fetched_files>>
    /\ UNCHANGED <<schedVars, taskVars, faults>>
    /\ UNCHANGED pureVars

\* collect() is complete: keep the Some results; bail when there is none
Collect ==
    /\ fetchPc = "fetching"
    /\ nextFile > Len(selected_files)
    /\ inflight = {}
    /\ file_infos' = SelectSome(fetched_files)
    /\ fetchPc' = IF SelectSome(fetched_files) = <<>> THEN "done_err" ELSE "done_ok"
    /\ UNCHANGED <<tree, max_files, selected_files, nextFile, inflight, fetched_files>>
    /\ UNCHANGED <<schedVars, taskVars, faults>>
    /\ UNCHANGED pureVars

NextFetch ==
    \/ TreeErr
    \/ TreeOk
    \/ StartContent
    \/ \E i \in 1..MaxTreeSize : ContentNone(i)
    \/ \E i \in 1..MaxTreeSize : ContentSome(i)
    \/ Collect

Next ==
    \/ MainStep
    \/ \E t \in Tasks : TaskStep(t)

Spec == Init /\ [][Next]_vars

SpecTask == InitTask /\ [][Next]_vars

SpecFetch == InitFetch /\ [][NextFetch]_vars

\* a run of main with MaxItems work items where the fetch_repo_files call of
\* the first one is followed step by step, on a tree of at most MaxRunFiles
\* entries
InitRun ==
    /\ numItems = MaxItems
    /\ concurrency = MaxConcurrency
    /\ faults = 0
    /\ InitMain
    /\ InitTasks
    /\ fetchPc = "tree"
    /\ tree \in {t \in SUBSET TreeUniverse : Cardinality(t) <= MaxRunFiles}
    /\ max_files \in 0..MaxRunFiles
    /\ selected_files = <<>>
    /\ nextFile = 1
    /\ inflight = {}
    /\ fetched_files = <<>>
    /\ file_infos = <<>>
    /\ PureIdle

\* debate_runner awaits fetch_repo_files before anything else
FetchRuns == pc[1] = "start"

NextRun ==
    \/ MainStep
    \/ \E t \in Tasks : TaskStep(t)
    \/ FetchRuns /\ TreeErr
    \/ FetchRuns /\ TreeOk
    \/ FetchRuns /\ StartContent
    \/ FetchRuns /\ \E i \in 1..MaxRunFiles : ContentNone(i)
    \/ FetchRuns /\ \E i \in 1..MaxRunFiles : ContentSome(i)
    \/ FetchRuns /\ Collect

SpecRun == InitRun /\ [][NextRun]_vars

\* every process is scheduled again and again: the tokio runtime polls each
\* spawned task and main whenever they can make a step
FairSpec ==
    /\ Init
    /\ [][Next]_vars
    /\ WF_vars(MainStep)
    /\ \A t \in Tasks : WF_vars(TaskStep(t))

(***************************************************************************)
(* main: the fan-out into work items; what each item calls and writes.     *)
(***************************************************************************)
\* nothing of main, debate_runner or fetch_repo_files runs
MainIdle ==
    /\ numItems = 0
    /\ concurrency = 0
    /\ faults = 0
    /\ InitMain
    /\ InitTasks
    /\ FetchIdle

\* the names of the four endpoints main configures
endpoints == <<"east-us", "west-us", "japan-east", "europe-west">>

\* get_debate_types(): the eight analysis types, each kept as the list of its
\* space-separated words (none of the eight contains a space)
get_debate_types ==
    <<<<"code-review">>, <<"architecture-evaluation">>, <<"alternative-approaches">>,
      <<"security-vulnerabilities">>, <<"performance-optimization">>,
      <<"api-design">>, <<"roadmap-prediction">>, <<"license-impact">>>>

\* REPO_OWNER_1..3 / REPO_NAME_1..3: main reads at most three repositories
RepoSlots == 3

\* the repositories the environment may name
RepoUniverse == {[owner |-> "org", repo |-> "app"], [owner |-> "org", repo |-> "lib"]}

RECURSIVE Join(_, _)
Join(words, sep) ==
    IF Len(words) = 0 THEN ""
    ELSE IF Len(words) = 1 THEN words[1]
    ELSE words[1] \o sep \o Join(Tail(words), sep)

\* the nested loops over github_repos and debate_types, from pair number n
\* on (n = i * Len(types) + j), with the task_index reached so far
RECURSIVE FanOutFrom(_, _, _, _)
FanOutFrom(repos, types, n, task_index) ==
    IF n >= Len(repos) * Len(types)
    THEN <<>>
    ELSE LET i == n \div Len(types)
             j == n % Len(types)
             item == [repo_info |-> repos[i + 1],
                      debate_type |-> types[j + 1],
                      endpoint_index |-> task_index % Len(endpoints)]
             extra == [repo_info |-> repos[i + 1],
                       debate_type |-> types[j + 1],
                       endpoint_index |-> (task_index + 1 + 2) % Len(endpoints)]
         IN  IF i % 2 = 0 /\ j % 2 = 0
             THEN <<item, extra>> \o FanOutFrom(repos, types, n + 1, task_index + 2)
             ELSE <<item>> \o FanOutFrom(repos, types, n + 1, task_index + 1)

\* FanOut, had the extra copy been made for every pair of an even repository
FanOut_ExtraOnEvenRepo(repos, types) ==
    LET RECURSIVE From(_, _)
        From(n, task_index) ==
            IF n >= Len(repos) * Len(types)
            THEN <<>>
            ELSE LET i == n \div Len(types)
                     j == n % Len(types)
                     item == [repo_info |-> repos[i + 1],
                              debate_type |-> types[j + 1],
                              endpoint_index |-> task_index % Len(endpoints)]
                     extra == [repo_info |-> repos[i + 1],
                               debate_type |-> types[j + 1],
                               endpoint_index |-> (task_index + 1 + 2) % Len(endpoints)]
                 IN  IF i % 2 = 0
                     THEN <<item, extra>> \o From(n + 1, task_index + 2)
                     ELSE <<item>> \o From(n + 1, task_index + 1)
    IN  From(0, 0)

\* task_configs as main builds it
FanOut(repos, types) == FanOutFrom(repos, types, 0, 0)

\* debate_runner's endpoint, had it taken the endpoint after the assigned one
SelectEndpoint_Shifted(endpoint_index) ==
    endpoints[((endpoint_index + 1) % Len(endpoints)) + 1]

\* debate_runner: `&endpoints[endpoint_index % endpoints.len()]`
SelectEndpoint(endpoint_index) == endpoints[(endpoint_index % Len(endpoints)) + 1]

\* debate_type.replace(" ", "_")
replace_spaces(words) == Join(words, "_")

\* now.format("%Y%m%d_%H%M%S"): one text per second
format_time(at) == ToString(at)

\* the file name save_response writes to
save_path(base_dir, repo_info, debate_type, endpoint_name, t, at) ==
    base_dir \o "/" \o repo_info.owner \o "_" \o repo_info.repo \o "/"
        \o replace_spaces(debate_type) \o "_" \o endpoint_name \o "_" \o ToString(t)
        \o "_turn" \o format_time(at) \o ".json"

\* the turn the runner of item k is in: one more than its successful turns
RunnerTurn(k) ==
    1 + Cardinality({e \in 1..Len(events) :
                       events[e].task = k /\ events[e].result = "Ok"})

\* a run of main on one to MaxRepos repositories and the eight debate types
InitItems ==
    /\ MainIdle
    /\ QuestionIdle
    /\ TemplateIdle
    /\ itemsPc = "setup"
    /\ github_repos \in UNION {[1..r -> RepoUniverse] : r \in 1..MaxRepos}
    /\ debate_types = get_debate_types
    /\ task_configs = <<>>
    /\ now = 0
    /\ events = <<>>

\* the fan-out alone, on one to three repositories and any number of the
\* debate types
InitFanOut ==
    /\ MainIdle
    /\ QuestionIdle
    /\ TemplateIdle
    /\ itemsPc = "setup"
    /\ github_repos \in UNION {[1..r -> RepoUniverse] : r \in 1..RepoSlots}
    /\ debate_types \in {SubSeq(get_debate_types, 1, d) : d \in 0..Len(get_debate_types)}
    /\ task_configs = <<>>
    /\ now = 0
    /\ events = <<>>

BuildTaskConfigs ==
    /\ itemsPc = "setup"
    /\ task_configs' = FanOut(github_repos, debate_types)
    /\ itemsPc' = "running"
    /\ UNCHANGED <<github_repos, debate_types, now, events>>
    /\ UNCHANGED <<schedVars, taskVars, faults, fetchVars, questionVars, templateVars>>

\* the clock reaches the next second
Tick ==
    /\ itemsPc = "running"
    /\ now < MaxClock
    /\ now' = now + 1
    /\ UNCHANGED <<itemsPc, github_repos, debate_types, task_configs, events>>
    /\ UNCHANGED <<schedVars, taskVars, faults, fetchVars, questionVars, templateVars>>

\* the runner of item k: chat_completion returns Err, nothing is written
RunnerCallErr(k) ==
    /\ itemsPc = "running"
    /\ Len(events) < MaxEvents
    /\ k \in 1..Len(task_configs)
    /\ events' = Append(events,
                        [task |-> k, turn |-> RunnerTurn(k), result |-> "Err",
                         endpoint |-> SelectEndpoint(task_configs[k].endpoint_index),
                         path |-> ""])
    /\ UNCHANGED <<itemsPc, github_repos, debate_types, task_configs, now>>
    /\ UNCHANGED <<schedVars, taskVars, faults, fetchVars, questionVars, templateVars>>

\* the runner of item k: chat_completion returns Ok and save_response writes
\* the turn under the name of the runner's endpoint
RunnerTurnOk(k) ==
    /\ itemsPc = "running"
    /\ Len(events) < MaxEvents
    /\ k \in 1..Len(task_configs)
    /\ LET endpoint == SelectEndpoint(task_configs[k].endpoint_index)
       IN  events' = Append(events,
                            [task |-> k, turn |-> RunnerTurn(k), result |-> "Ok",
                             endpoint |-> endpoint,
                             path |-> save_path("output", task_configs[k].repo_info,
                                                task_configs[k].debate_type, endpoint,
                                                RunnerTurn(k), now)])
    /\ UNCHANGED <<itemsPc, github_repos, debate_types, task_configs, now>>
    /\ UNCHANGED <<schedVars, taskVars, faults, fetchVars, questionVars, templateVars>>

MaxItemCount == RepoSlots * Len(get_debate_types) * 2

NextItems ==
    \/ BuildTaskConfigs
    \/ Tick
    \/ \E k \in 1..MaxItemCount : RunnerCallErr(k)
    \/ \E k \in 1..MaxItemCount : RunnerTurnOk(k)

SpecItems == InitItems /\ [][NextItems]_vars

NextFanOut == BuildTaskConfigs

SpecFanOut == InitFanOut /\ [][NextFanOut]_vars

(***************************************************************************)
(* The question functions, called on their own.                            *)
(***************************************************************************)
\* the category names a caller may pass: the seven known ones and another
CategoryNames == {categories[i] : i \in 1..Len(categories)} \cup {"other"}

\* what llm/categories/<category>.json can hold: no file, no valid JSON, or
\* a list of questions
CategoryFiles ==
    {NoFile, [state |-> "invalid", questions |-> 0]}
        \cup {[state |-> "ok", questions |-> n] : n \in 0..MaxFileQuestions}

\* llm::categories::load_category: Err unless the file is read and parsed
load_category(file) ==
    IF file.state = "ok"
    THEN [ok |-> TRUE, questions |-> file.questions]
    ELSE [ok |-> FALSE, questions |-> 0]

\* llm::categories::get_question: `?` on load_category, Err on an empty
\* list, else the question at index % len
categories_get_question(category, index, file) ==
    LET category_data == load_category(file)
    IN  IF ~category_data.ok
        THEN [op |-> "categories::get_question", ok |-> FALSE,
              value |-> <<"error", "load_category", 0>>]
        ELSE IF category_data.questions = 0
        THEN [op |-> "categories::get_question", ok |-> FALSE,
              value |-> <<"error", "no questions", 0>>]
        ELSE [op |-> "categories::get_question", ok |-> TRUE,
              value |-> <<"question", category, index % category_data.questions>>]

InitQuestion ==
    /\ MainIdle
    /\ ItemsIdle
    /\ TemplateIdle
    /\ q_turn \in 1..MaxQuestionTurn
    /\ q_category \in CategoryNames
    /\ q_index \in 0..MaxQuestionIndex
    /\ q_file \in CategoryFiles
    /\ q_result = NoResult

CallGetNextQuestion ==
    /\ q_result = NoResult
    /\ q_result' = [op |-> "get_next_question", ok |-> TRUE,
                    value |-> get_next_question(q_turn)]
    /\ UNCHANGED <<q_turn, q_category, q_index, q_file>>
    /\ UNCHANGED <<schedVars, taskVars, faults, fetchVars, itemVars, templateVars>>

CallDeepGetQuestion ==
    /\ q_result = NoResult
    /\ q_result' = [op |-> "DeepQuestions::get_question", ok |-> TRUE,
                    value |-> get_question(q_category, q_index)]
    /\ UNCHANGED <<q_turn, q_category, q_index, q_file>>
    /\ UNCHANGED <<schedVars, taskVars, faults, fetchVars, itemVars, templateVars>>

CallCategoriesGetQuestion ==
    /\ q_result = NoResult
    /\ q_result' = categories_get_question(q_category, q_index, q_file)
    /\ UNCHANGED <<q_turn, q_category, q_index, q_file>>
    /\ UNCHANGED <<schedVars, taskVars, faults, fetchVars, itemVars, templateVars>>

NextQuestion ==
    \/ CallGetNextQuestion
    \/ CallDeepGetQuestion
    \/ CallCategoriesGetQuestion

SpecQuestion == InitQuestion /\ [][NextQuestion]_vars

(***************************************************************************)
(* llm::prompts::render_template.  A text is a sequence of tokens: a       *)
(* placeholder "{key}" or a piece of text without a brace.                 *)
(***************************************************************************)
Keys == {"a", "b"}

\* format!("{{{}}}", key)
Placeholder(key) == "{" \o key \o "}"

Tokens == {"x"} \cup {Placeholder(key) : key \in Keys}

\* the values a caller may pass: one token each
Values == {<<tok>> : tok \in Tokens}

\* str::replace(from, to) on a text
RECURSIVE replace(_, _, _)
replace(text, from, to) ==
    IF text = <<>> THEN <<>>
    ELSE (IF Head(text) = from THEN to ELSE <<Head(text)>>)
             \o replace(Tail(text), from, to)

\* the loop of render_template from the pair at position n on
RECURSIVE RenderFrom(_, _, _)
RenderFrom(result, pairs, n) ==
    IF n > Len(pairs) THEN result
    ELSE RenderFrom(replace(result, Placeholder(pairs[n][1]), pairs[n][2]), pairs, n + 1)

render_template(tpl, pairs) == RenderFrom(tpl, pairs, 1)

InitTemplate ==
    /\ MainIdle
    /\ ItemsIdle
    /\ QuestionIdle
    /\ template \in UNION {[1..n -> Tokens] : n \in 0..MaxTemplateLen}
    /\ variables \in UNION {[1..n -> Keys \X Values] : n \in 0..MaxPairs}
    /\ rendered = NotRendered

CallRenderTemplate ==
    /\ ~rendered.done
    /\ rendered' = [done |-> TRUE, text |-> render_template(template, variables)]
    /\ UNCHANGED <<template, variables>>
    /\ UNCHANGED <<schedVars, taskVars, faults, fetchVars, itemVars, questionVars>>

NextTemplate == CallRenderTemplate

SpecTemplate == InitTemplate /\ [][NextTemplate]_vars

(***************************************************************************)
(* Properties.                                                             *)
(***************************************************************************)
PersistedTurns(t) == [i \in 1..Len(persisted[t]) |-> persisted[t][i].turn]

\* the tasks that have started their conversation and have not returned
Running == {t \in Tasks : pc[t] \in {"call", "err_sleep"}}

\* C1: with concurrency limit K >= 1 and M > K work items, at most K
\* debate_runner tasks are executing (started, no terminal outcome yet) at
\* any instant.
C1_AtMostKRunning ==
    (concurrency >= 1 /\ numItems > concurrency) => Cardinality(Running) <= concurrency

\* C2: under fair scheduling, whatever the completion service answers, every
\* work item reaches a terminal outcome and main reports overall completion.
C2_AllItemsTerminate ==
    <>(mainPc = "done" /\ \A t \in 1..numItems : pc[t] \in Terminal)

\* C3: once the remote call of a task has failed 3 times in a row, at any
\* turn, the task ends Aborted and makes no further remote call.
C3_ThreeFailuresAbort ==
    \A t \in Tasks : consecFails[t] >= ConsecutiveLimit => pc[t] \in {"err_sleep", "err_api"}

\* C4: a task aborts on remote failure only when its 3 most recent remote
\* calls all failed: a first or second failure after a success is re-attempted.
C4_AbortOnlyAfterThree ==
    \A t \in Tasks : pc[t] = "err_api" => consecFails[t] >= ConsecutiveLimit

\* C5 as stated: the turn numbers persisted for a terminated task are exactly
\* 1, 2, ..., n, whatever the persistence layer does.
C5_PersistedExactlyOneToN ==
    \A t \in Tasks :
        pc[t] \in Terminal => PersistedTurns(t) = [i \in 1..Len(persisted[t]) |-> i]

\* the turns whose exchange succeeded and whose save_response succeeded
SavedTurns(t) == (1..(turn[t] - 1)) \ saveFailed[t]

\* C5 as amended: the turn numbers persisted for a task are strictly
\* increasing (no repeat) and are exactly the completed turns whose
\* save_response succeeded; they are exactly 1, 2, ..., n when no
\* save_response of the task failed.
C5_PersistedTurnsIncreasing ==
    \A t \in Tasks :
        /\ \A i \in 1..(Len(persisted[t]) - 1) :
               PersistedTurns(t)[i] < PersistedTurns(t)[i + 1]
        /\ {PersistedTurns(t)[i] : i \in 1..Len(persisted[t])} = SavedTurns(t)
        /\ saveFailed[t] = {} =>
               PersistedTurns(t) = [i \in 1..Len(persisted[t]) |-> i]

\* a terminated task with a turn persisted after a turn whose save failed
C5_Witness ==
    \E t \in Tasks :
        /\ pc[t] \in Terminal
        /\ saveFailed[t] # {}
        /\ \E i \in 1..Len(persisted[t]) :
               \E f \in saveFailed[t] : PersistedTurns(t)[i] > f

\* what a task owns: its position, turn, history and persisted turns
TaskState(t) == <<pc[t], turn[t], messages[t], persisted[t]>>

\* C6: a step changes the state of at most one task, and a step of main
\* (spawning, admitting, reporting a result, also a failed or panicked one)
\* changes no task but the one it starts: the turns and the outcome of a task
\* depend on nothing another task, or its failure, does.
C6_Isolation ==
    [][/\ Cardinality({t \in Tasks : TaskState(t)' # TaskState(t)}) <= 1
       /\ schedVars' # schedVars =>
              \A t \in Tasks : TaskState(t)' # TaskState(t) => pc[t] = "unspawned"]_vars

\* one task has panicked and main has reported it; another has run all its
\* turns and succeeded
C6_Witness ==
    \E a, b \in Tasks :
        /\ a # b
        /\ pc[a] = "panic"
        /\ \E i \in 1..Len(reported) :
               reported[i] = [task |-> a, result |-> "Err(JoinError)"]
        /\ pc[b] = "ok"
        /\ Len(persisted[b]) = MaxTurns

\* C7: a remote call that keeps being rate-limited is abandoned after the
\* 6th attempt, having waited 1, 2, 4, 8, 16 seconds between attempts.
C7_BackoffSchedule ==
    \A t \in Tasks :
        (lastCall[t].result = "Err" /\ lastCall[t].response = "rate_limit") =>
            /\ lastCall[t].attempts = 6
            /\ lastCall[t].waits = <<1, 2, 4, 8, 16>>

\* C8: a retryable error below the retry ceiling is absorbed by the retry
\* layer: it never aborts the task.
C8_RetryableNeverAborts ==
    \A t \in Tasks :
        pc[t] = "err_api" =>
            ~(lastCall[t].response \in ErrResponses /\ lastCall[t].attempts < 6)

\* C9: the list fetch_repo_files returns has every priority path before
\* every other path and is in lexicographic order within each group.
C9_OutputSorted ==
    fetchPc = "done_ok" =>
        \A i, j \in 1..Len(file_infos) : i < j => SortLess(file_infos[i], file_infos[j])

RECURSIVE CharLen(_)
\* the length in Unicode scalar values
CharLen(runs) ==
    IF runs = <<>> THEN 0 ELSE Head(runs).count + CharLen(Tail(runs))

RECURSIVE CharPrefix(_, _)
\* the first n characters
CharPrefix(runs, n) ==
    IF n = 0 \/ runs = <<>> THEN <<>>
    ELSE LET h == Head(runs)
         IN  IF h.count <= n
             THEN <<h>> \o CharPrefix(Tail(runs), n - h.count)
             ELSE <<Run(h.width, n)>>

\* the content the size cap asks for: the first MaxFileSize characters and
\* the marker when there are more, the content itself otherwise
TruncateChars(content) ==
    IF CharLen(content) > MaxFileSize
    THEN Text(CharPrefix(content, MaxFileSize), TRUE)
    ELSE Text(content, FALSE)

\* C10: a content of more than 10000 characters is returned as its first
\* 10000 characters and the marker, any other content unchanged, and no
\* character is split (the slice never panics).
C10_TruncationByChars ==
    /\ fetchPc # "panic"
    /\ \A i \in 1..Len(fetched_files) :
           fetched_files[i].some =>
               fetched_files[i].content =
                   TruncateChars(from_utf8_lossy(fetched_files[i].decoded))

\* the paths of the sorted candidate list of the tree
CandidatePaths ==
    LET code_files == SortFiles({item \in tree : IsCodeFile(item)})
    IN  [i \in 1..Len(code_files) |-> code_files[i].path]

\* C11: for every candidate set and every max_files (0 and values above the
\* candidate count included), fetch_repo_files requests and returns at most
\* min(max_files, candidateCount) files, all of them among the first
\* min(max_files, candidateCount) entries of the sorted candidate list.
C11_CapRespected ==
    LET n == Min(max_files, Len(CandidatePaths))
        firstN == {CandidatePaths[i] : i \in 1..n}
    IN  /\ Cardinality(inflight) + Len(fetched_files) <= n
        /\ Len(file_infos) <= n
        /\ \A i \in 1..Len(fetched_files) : fetched_files[i].path \in firstN
        /\ \A i \in 1..Len(file_infos) : file_infos[i].path \in firstN

\* a tree with more candidates than max_files >= 1, and max_files files returned
C11_Witness ==
    /\ fetchPc = "done_ok"
    /\ max_files >= 1
    /\ max_files < Len(CandidatePaths)
    /\ Len(file_infos) = max_files

\* the question get_next_question selected when called with turn = k: the
\* user message pushed after the exchange of turn k
SelectedQuestion(t, k) == messages[t][2 * k + 2].content

\* C12 as stated: the selections for turns 2 and 9 have the same category,
\* and the selections for turns 2 and 16 have the same category and the same
\* question index, hence are the same question.
C12_SameQuestionAt2And16 ==
    \A t \in Tasks :
        Len(messages[t]) >= 34 =>
            /\ SelectedQuestion(t, 2)[2] = SelectedQuestion(t, 9)[2]
            /\ SelectedQuestion(t, 2) = SelectedQuestion(t, 16)

\* C12 as amended: the selections for turns 2, 9 and 16 have the same
\* category, with question index 0, 1 and 2: three different questions.
C12_CategoryRotation ==
    \A t \in Tasks :
        Len(messages[t]) >= 34 =>
            /\ SelectedQuestion(t, 2)[1] = "question"
            /\ SelectedQuestion(t, 2)[2] = SelectedQuestion(t, 9)[2]
            /\ SelectedQuestion(t, 2)[2] = SelectedQuestion(t, 16)[2]
            /\ SelectedQuestion(t, 2)[3] = 0
            /\ SelectedQuestion(t, 9)[3] = 1
            /\ SelectedQuestion(t, 16)[3] = 2

\* a task that has selected the question of turn 16
C12_Witness == \E t \in Tasks : turn[t] = 17 /\ Len(messages[t]) = 34

\* C13: a task whose remote calls succeed 20 times ends with Success right
\* after the exchange of turn 20: no remote call is made at a turn above 20,
\* the turn counter never exceeds 21, and at most 20 turns are persisted.
C13_StopsAfterTurn20 ==
    \A t \in Tasks :
        /\ turn[t] <= MaxTurns + 1
        /\ pc[t] \in {"call", "err_sleep"} => turn[t] <= MaxTurns
        /\ turn[t] = MaxTurns + 1 <=> pc[t] = "ok"
        /\ Len(persisted[t]) <= MaxTurns
        /\ \A i \in 1..Len(persisted[t]) : persisted[t][i].turn <= MaxTurns

\* a task that succeeded with all 20 turns persisted
C13_Witness ==
    \E t \in Tasks : pc[t] = "ok" /\ turn[t] = MaxTurns + 1 /\ Len(persisted[t]) = MaxTurns

\* the tasks that ended with Err or with a panic
Failed == {t \in Tasks : pc[t] \in {"err_fetch", "err_api", "panic"}}

\* C14: once a task has failed (Err or panic), main can still start every
\* work item not yet started (it is in the spawn loop, whose next step no
\* task can block); the concurrency setting stays K, and the handle of a
\* failed task whose result was reported no longer occupies a place in
\* active_tasks.
C14_FailureKeepsAdmission ==
    /\ []((Failed # {} /\ \E t \in 1..numItems : pc[t] = "unspawned") =>
             (mainPc = "spawn" /\ ENABLED SpawnTask))
    /\ [][concurrency' = concurrency]_vars
    /\ [](\A i \in 1..Len(reported) :
              reported[i].result # "Ok(Ok)" =>
                  \A j \in 1..Len(active_tasks) : active_tasks[j] # reported[i].task)

\* a task has failed while a work item is not started yet
C14_Witness ==
    /\ Failed # {}
    /\ \E t \in 1..numItems : pc[t] = "unspawned"

(***************************************************************************)
(* C15: for every task and every N >= 2 whose turns N-1 and N were both    *)
(* persisted, the history persisted for turn N has the history persisted   *)
(* for turn N-1 as a strict prefix.                                        *)
(***************************************************************************)
IsStrictPrefix(s, l) == Len(s) < Len(l) /\ SubSeq(l, 1, Len(s)) = s

C15_PrefixExtension ==
    \A t \in Tasks : \A i, j \in 1..Len(persisted[t]) :
        persisted[t][j].turn = persisted[t][i].turn + 1 =>
            IsStrictPrefix(persisted[t][i].messages, persisted[t][j].messages)

\* turns 2 and 3 are both persisted, after a turn whose save failed
C15_Witness ==
    \E t \in Tasks : \E i, j \in 1..Len(persisted[t]) :
        /\ persisted[t][i].turn = 2
        /\ persisted[t][j].turn = 3
        /\ 1 \in saveFailed[t]

(***************************************************************************)
(* C16: when save_response fails for turn t the task neither ends nor      *)
(* repeats the turn: the step that records the failed save appends the     *)
(* reply and the next user question, moves to turn t+1 and goes back to    *)
(* the loop head (the next call, or the successful end after turn 20); no  *)
(* step that records a failed save ends the task with a failure.           *)
(***************************************************************************)
C16_SaveFailureNonFatal ==
    [][\A t \in Tasks :
          saveFailed'[t] # saveFailed[t] =>
              /\ saveFailed'[t] = saveFailed[t] \cup {turn[t]}
              /\ turn'[t] = turn[t] + 1
              /\ Len(messages'[t]) = Len(messages[t]) + 2
              /\ SubSeq(messages'[t], 1, Len(messages[t])) = messages[t]
              /\ messages'[t][Len(messages[t]) + 1].role = "assistant"
              /\ messages'[t][Len(messages[t]) + 2].role = "user"
              /\ pc'[t] = IF turn[t] < MaxTurns THEN "call" ELSE "ok"
              /\ lastCall'[t].result = "Ok"]_vars

\* the save of turn 2 failed and the call of turn 3 is about to be issued
C16_Witness ==
    \E t \in Tasks :
        /\ 2 \in saveFailed[t]
        /\ turn[t] = 3
        /\ pc[t] = "call"
        /\ Len(messages[t]) = 6

(***************************************************************************)
(* C17: when file retrieval for a task yields no file (no candidate, or    *)
(* every content request failed) fetch_repo_files returns an error and the *)
(* task ends with a failure: no completion call is issued, no turn is      *)
(* persisted, and the step that ends it changes nothing of any other task. *)
(***************************************************************************)
NoArtifact ==
    /\ nextFile > Len(selected_files)
    /\ inflight = {}
    /\ SelectSome(fetched_files) = <<>>

C17_NoArtifactFailsTask ==
    /\ []((fetchPc = "done_ok" /\ pc[1] = "start") => file_infos # <<>>)
    /\ [](fetchPc = "done_err" =>
             /\ pc[1] \in {"start", "err_fetch"}
             /\ lastCall[1] = NoCall
             /\ persisted[1] = <<>>
             /\ messages[1] = <<>>)
    /\ [][(fetchPc = "fetching" /\ fetchPc' # "fetching" /\ NoArtifact) =>
              fetchPc' = "done_err"]_vars
    /\ [][(fetchPc = "done_err" /\ pc'[1] # pc[1]) =>
              /\ pc'[1] = "err_fetch"
              /\ \A u \in Tasks \ {1} :
                     /\ TaskState(u)' = TaskState(u)
                     /\ lastCall'[u] = lastCall[u]
              /\ reported' = reported]_vars

\* every content request of the first item failed and the item ended with
\* the fetch error, while the second item ran all its turns
C17_Witness ==
    /\ pc[1] = "err_fetch"
    /\ fetchPc = "done_err"
    /\ Len(fetched_files) >= 1
    /\ NoArtifact
    /\ lastCall[1] = NoCall
    /\ pc[2] = "ok"
    /\ Len(persisted[2]) = MaxTurns

(***************************************************************************)
(* C18: main reports the outcome of every work item exactly once; the      *)
(* completion report comes only after every item has resolved and has been *)
(* reported, and nothing is reported after it.                             *)
(***************************************************************************)
ReportedTasks == {reported[i].task : i \in 1..Len(reported)}

C18_ReportedExactlyOnce ==
    /\ [](\A i, j \in 1..Len(reported) :
             reported[i].task = reported[j].task => i = j)
    /\ [](\A i \in 1..Len(reported) :
             /\ pc[reported[i].task] \in Terminal
             /\ reported[i].result = JoinResult(pc[reported[i].task]))
    /\ [](mainPc = "done" =>
             /\ ReportedTasks = 1..numItems
             /\ Len(reported) = numItems
             /\ \A t \in 1..numItems : pc[t] \in Terminal)
    /\ [][mainPc = "done" => reported' = reported]_vars

\* completion after two items, the second reported first and one a failure
C18_Witness ==
    /\ mainPc = "done"
    /\ numItems = MaxItems
    /\ Len(reported) = MaxItems
    /\ reported[1].task = 2
    /\ \E i \in 1..Len(reported) : reported[i].result # "Ok(Ok)"

(***************************************************************************)
(* C19: work items are started in the order the fan-out generated them:    *)
(* the started items are always the first ones of task_configs, each spawn *)
(* starts the next one, and the handles enter active_tasks in that order.  *)
(***************************************************************************)
Started == {t \in Tasks : pc[t] # "unspawned"}

C19_FifoAdmission ==
    /\ [](Started = 1..spawned)
    /\ [](ReportedTasks \cup {active_tasks[i] : i \in 1..Len(active_tasks)}
             = 1..(nextTask - 1))
    /\ [][/\ \A t \in Started' \ Started : \A u \in 1..(t - 1) : u \in Started
          /\ Len(active_tasks') > Len(active_tasks) =>
                 active_tasks' = Append(active_tasks, nextTask)]_vars

\* the first item runs while the second has not been started
C19_Witness ==
    /\ numItems = MaxItems
    /\ pc[1] \in {"call", "err_sleep"}
    /\ pc[MaxItems] = "unspawned"

(***************************************************************************)
(* C20: a failed remote call leaves the task's turn number and message     *)
(* history unchanged and persists nothing; the call that follows the pause *)
(* is issued for the same turn with the same history.                      *)
(***************************************************************************)
C20_FailedCallFrame ==
    [][\A t \in Tasks :
          (pc[t] = "err_sleep" \/ pc'[t] = "err_sleep") =>
              /\ turn'[t] = turn[t]
              /\ messages'[t] = messages[t]
              /\ persisted'[t] = persisted[t]
              /\ saveFailed'[t] = saveFailed[t]
              /\ pc'[t] \in {"err_sleep", "call", "err_api"}]_vars

\* turn 2 is re-attempted after a failed call, with the history of turn 2
C20_Witness ==
    \E t \in Tasks :
        /\ pc[t] = "call"
        /\ consecFails[t] >= 1
        /\ lastCall[t].result # "Ok"
        /\ turn[t] = 2
        /\ Len(messages[t]) = 4

(***************************************************************************)
(* C21: every successful exchange raises the turn number of the task by    *)
(* exactly 1 and extends its history by exactly the assistant reply and    *)
(* then the next user question; no step lowers a turn number or shortens   *)
(* (or rewrites) a history.                                                *)
(***************************************************************************)
TaskMoved(t) == TaskState(t)' # TaskState(t)

C21_TurnAndHistoryGrow ==
    [][\A t \in Tasks :
          /\ turn'[t] >= turn[t]
          /\ Len(messages'[t]) >= Len(messages[t])
          /\ SubSeq(messages'[t], 1, Len(messages[t])) = messages[t]
          /\ (pc[t] = "call" /\ TaskMoved(t) /\ lastCall'[t].result = "Ok") =>
                 /\ turn'[t] = turn[t] + 1
                 /\ messages'[t] =
                        messages[t] \o
                        <<ChatMessage("assistant", <<"reply", "", 0>>),
                          ChatMessage("user", get_next_question(turn[t]))>>
          /\ (turn'[t] # turn[t] /\ pc[t] # "start") =>
                 (pc[t] = "call" /\ lastCall'[t].result = "Ok")]_vars

\* three successful exchanges with a failed call in between
C21_Witness ==
    \E t \in Tasks :
        /\ turn[t] = 4
        /\ Len(messages[t]) = 8
        /\ consecFails[t] >= 1

(***************************************************************************)
(* C22: a task issues its calls one at a time from its loop; a turn is     *)
(* saved in the step in which its call succeeds, under the turn number of  *)
(* that call and before the call of the next turn, so the persisted turns  *)
(* of a task are in strictly increasing order, whatever other tasks write  *)
(* in between.                                                             *)
(***************************************************************************)
C22_SaveBetweenCalls ==
    /\ [](\A t \in Tasks : \A i \in 1..Len(persisted[t]) :
             /\ persisted[t][i].turn < turn[t]
             /\ \A j \in 1..(i - 1) : persisted[t][j].turn < persisted[t][i].turn)
    /\ [][\A t \in Tasks :
             /\ lastCall'[t] # lastCall[t] => pc[t] = "call"
             /\ persisted'[t] # persisted[t] =>
                    /\ pc[t] = "call"
                    /\ lastCall'[t].result = "Ok"
                    /\ Len(persisted'[t]) = Len(persisted[t]) + 1
                    /\ SubSeq(persisted'[t], 1, Len(persisted[t])) = persisted[t]
                    /\ persisted'[t][Len(persisted'[t])].turn = turn[t]
                    /\ turn'[t] = turn[t] + 1]_vars

\* the second task wrote its turns 2 and 3 after the first task wrote its
\* turn 1 or before it writes its turn 2
C22_Witness ==
    /\ pc[1] = "call"
    /\ PersistedTurns(1) = <<1>>
    /\ pc[2] = "call"
    /\ PersistedTurns(2) = <<1, 2, 3>>

(***************************************************************************)
(* C24: for every task and every t in 2..20 the last message of the        *)
(* history sent in the call of turn t is the question get_next_question    *)
(* assigns to turn t; the opening question is pending only in turn 1.      *)
(***************************************************************************)
PendingMessage(t) == messages[t][Len(messages[t])]

C24_PendingQuestionOfTurn ==
    \A t \in Tasks :
        (pc[t] = "call" /\ turn[t] \in 2..MaxTurns) =>
            /\ PendingMessage(t).role = "user"
            /\ PendingMessage(t).content = get_next_question(turn[t])
            /\ PendingMessage(t).content # get_next_question(1)

(***************************************************************************)
(* C25: at every call of turn t the history has exactly 2t messages, the   *)
(* system message and then user and assistant messages in turn, ending     *)
(* with a user message; every snapshot persisted for turn t has exactly    *)
(* 2t+1 messages and ends with the assistant reply.                        *)
(***************************************************************************)
Alternating(msgs) ==
    \A i \in 1..Len(msgs) :
        msgs[i].role = IF i = 1 THEN "system"
                        ELSE IF i % 2 = 0 THEN "user" ELSE "assistant"

C25_HistoryShape ==
    \A t \in Tasks :
        /\ pc[t] \in {"call", "err_sleep"} =>
               /\ Len(messages[t]) = 2 * turn[t]
               /\ Alternating(messages[t])
        /\ \A i \in 1..Len(persisted[t]) :
               /\ Len(persisted[t][i].messages) = 2 * persisted[t][i].turn + 1
               /\ Alternating(persisted[t][i].messages)
               /\ persisted[t][i].messages[Len(persisted[t][i].messages)].content
                      = <<"reply", "", 0>>

\* the call of turn 3 is about to be issued and turn 2 has been persisted
C25_Witness ==
    \E t \in Tasks :
        /\ pc[t] = "call"
        /\ turn[t] = 3
        /\ \E i \in 1..Len(persisted[t]) : persisted[t][i].turn = 2

(***************************************************************************)
(* C26: no two save_response calls of a run write to the same path: not    *)
(* two turns of one task, and not turns of two different tasks, also when  *)
(* they are written within the same second.                                *)
(***************************************************************************)
C26_PathsDistinct ==
    \A a, b \in 1..Len(events) :
        (a < b /\ events[a].result = "Ok" /\ events[b].result = "Ok") =>
            events[a].path # events[b].path

(***************************************************************************)
(* C27: every remote call and every persisted turn of a task uses          *)
(* endpoints[assigned index mod endpoint count], also after a failed call, *)
(* and the assignment made by the fan-out is never changed.                *)
(***************************************************************************)
C27_EndpointFixed ==
    /\ [](\A e \in 1..Len(events) :
             events[e].endpoint =
                 endpoints[(task_configs[events[e].task].endpoint_index
                                % Len(endpoints)) + 1])
    /\ [](\A a, b \in 1..Len(events) :
             events[a].task = events[b].task => events[a].endpoint = events[b].endpoint)
    /\ [][itemsPc = "running" => task_configs' = task_configs]_vars

\* the extra copy of the first pair saved a turn after one of its calls failed
C27_Witness ==
    /\ Len(events) = 2
    /\ events[1].task = 2
    /\ events[1].result = "Err"
    /\ events[2].task = 2
    /\ events[2].result = "Ok"
    /\ events[2].endpoint = "europe-west"

(***************************************************************************)
(* C28: for R repositories and D debate types the fan-out holds every pair *)
(* (i, j) once, and once more directly after it when i and j are both even *)
(* (from 0), in row-major order and nothing else; 3 repositories and 8     *)
(* types give 32 work items.                                               *)
(***************************************************************************)
Evens(n) == (n + 1) \div 2

\* where the original of pair (i, j) stands in task_configs, counted from 0
PairPosition(i, j) ==
    i * Len(debate_types) + j + Evens(i) * Evens(Len(debate_types))
        + (IF i % 2 = 0 THEN Evens(j) ELSE 0)

IsPair(config, i, j) ==
    /\ config.repo_info = github_repos[i + 1]
    /\ config.debate_type = debate_types[j + 1]

C28_FanOutPairs ==
    itemsPc = "running" =>
        LET R == Len(github_repos)
            D == Len(debate_types)
            Doubled(i, j) == i % 2 = 0 /\ j % 2 = 0
        IN  /\ Len(task_configs) = R * D + Evens(R) * Evens(D)
            /\ \A i \in 0..(R - 1) : \A j \in 0..(D - 1) :
                   /\ IsPair(task_configs[PairPosition(i, j) + 1], i, j)
                   /\ Doubled(i, j) => IsPair(task_configs[PairPosition(i, j) + 2], i, j)
            /\ 1..Len(task_configs) =
                   UNION {{PairPosition(i, j) + 1} \cup
                            (IF Doubled(i, j) THEN {PairPosition(i, j) + 2} ELSE {}) :
                          i \in 0..(R - 1), j \in 0..(D - 1)}
            /\ (R = 3 /\ D = 8) => Len(task_configs) = 32

\* the fan-out of three repositories and the eight debate types
C28_Witness ==
    /\ itemsPc = "running"
    /\ Len(github_repos) = 3
    /\ Len(debate_types) = 8
    /\ Len(task_configs) = 32

(***************************************************************************)
(* C23: get_next_question returns the opening question for turn 1 and,     *)
(* for every later turn, the question at index ((turn-2) div 7) mod (the   *)
(* number of questions of the category) of the category at position        *)
(* (turn-2) mod 7 of the seven categories, always inside the lists.        *)
(***************************************************************************)
C23_QuestionOfTurn ==
    q_result.op = "get_next_question" =>
        /\ q_result.ok
        /\ q_turn = 1 => q_result.value = <<"opening", "", 0>>
        /\ q_turn >= 2 =>
               LET position == (q_turn - 2) % 7
                   category == categories[position + 1]
                   index == ((q_turn - 2) \div 7) % QuestionCount[category]
               IN  /\ position + 1 \in 1..Len(categories)
                   /\ index < QuestionCount[category]
                   /\ q_result.value = <<"question", category, index>>

\* turn 21: the third question of the sixth category
C23_Witness ==
    /\ q_result.op = "get_next_question"
    /\ q_turn = 21
    /\ q_result.value = <<"question", "distributed", 2>>

(***************************************************************************)
(* C29: when the category has no question data (unknown name, missing or   *)
(* unreadable data, or an empty question list) question selection returns  *)
(* the fixed fallback question, not an error.                              *)
(***************************************************************************)
NoQuestionData ==
    CASE q_result.op = "DeepQuestions::get_question" ->
             q_category \notin DOMAIN QuestionCount
      [] q_result.op = "categories::get_question" ->
             q_file.state # "ok" \/ q_file.questions = 0
      [] OTHER -> FALSE

C29_FallbackOnNoData ==
    NoQuestionData =>
        /\ q_result.ok
        /\ q_result.value = <<"fallback", "", 0>>

(***************************************************************************)
(* C30: for every template and every list of (placeholder, value) pairs,   *)
(* also with values that contain placeholder text, the rendered text holds *)
(* no placeholder of a supplied key and is the same for every order of the *)
(* pairs.                                                                  *)
(***************************************************************************)
Reverse(seq) == [i \in 1..Len(seq) |-> seq[Len(seq) + 1 - i]]

C30_AllSubstitutedAnyOrder ==
    rendered.done =>
        /\ \A n \in 1..Len(variables) : \A i \in 1..Len(rendered.text) :
               rendered.text[i] # Placeholder(variables[n][1])
        /\ render_template(template, Reverse(variables)) = rendered.text

(***************************************************************************)
(* C31: for every concurrency value, 0 included, and every number of work  *)
(* items, 0 included, main never calls select_all on an empty active_tasks *)
(* (which would panic): it waits in select_all, and reports an outcome,    *)
(* only while active_tasks holds a handle.                                 *)
(***************************************************************************)
InSelectAll ==
    \/ mainPc = "select_admit"
    \/ mainPc = "drain" /\ ~ENABLED Finish

C31_SelectAllNonEmpty ==
    /\ [](InSelectAll => active_tasks # <<>>)
    /\ [][reported' # reported =>
              /\ active_tasks # <<>>
              /\ mainPc \in {"select_admit", "drain"}]_vars

\* concurrency 0: main waits in select_all on the handle it has just pushed
C31_Witness ==
    /\ concurrency = 0
    /\ mainPc = "select_admit"
    /\ Len(active_tasks) = 1
    /\ Len(reported) = 1

(***************************************************************************)
(* C32: for a concurrency K >= 1, active_tasks never holds more than K     *)
(* handles and holds fewer than K between two iterations of the admission  *)
(* loop; handles enter it in generation order and leave it only in the     *)
(* step that reports their outcome.                                        *)
(***************************************************************************)
Handles(seq) == {seq[i] : i \in 1..Len(seq)}

C32_ActiveTasksBounded ==
    /\ [](concurrency >= 1 =>
             /\ Len(active_tasks) <= concurrency
             /\ mainPc = "admit" => Len(active_tasks) < concurrency)
    /\ [][/\ Handles(active_tasks') \ Handles(active_tasks) # {} =>
                 /\ active_tasks' = Append(active_tasks, nextTask)
                 /\ nextTask' = nextTask + 1
          /\ \A h \in Handles(active_tasks) \ Handles(active_tasks') :
                 /\ Len(reported') = Len(reported) + 1
                 /\ reported'[Len(reported')].task = h
                 /\ Len(active_tasks') = Len(active_tasks) - 1]_vars

\* concurrency 2: both handles are awaited, then one has been reported
C32_Witness ==
    /\ concurrency = 2
    /\ numItems = 2
    /\ mainPc = "admit"
    /\ Len(active_tasks) = 1
    /\ Len(reported) = 1

====
